---- MODULE Spec2Model ----
(***************************************************************************)
(* PolkArena: the short-code utilities (lib/utils.ts) and the event        *)
(* creation form (app/events/create/page.tsx) as state machines.           *)
(*                                                                         *)
(* JavaScript strings that the code inspects character by character are    *)
(* sequences of one-character strings; strings the code only builds or     *)
(* compares are TLA+ strings.                                              *)
(***************************************************************************)
EXTENDS Integers, Sequences, FiniteSets, TLC

VARIABLES
    fnPc,         \* position of a utility call: "ready" or "returned"
    fnArgs,       \* the arguments of the utility call
    fnRet,        \* what the utility call returned
    uq,           \* the generateUniqueShortCode run: its locals and its call counts
    clock,        \* the wall clock, in milliseconds (Date.now())
    loading,      \* CreateEventPage: the loading flag
    user,         \* CreateEventPage: the signed-in user, Null before getUser answers
    saving,       \* CreateEventPage: the saving flag
    formData,     \* CreateEventPage: the form fields
    customFields, \* CreateEventPage: the custom-field list
    pc,           \* position of the handleSubmit run
    run,          \* the handleSubmit run: the values its closure holds and its locals
    calls,        \* the external calls the handleSubmit run has issued
    toast,        \* the last toast shown
    route,        \* the route the router shows
    uploading,    \* ImageUpload: the uploading flag
    preview,      \* ImageUpload: the preview URL, Null when there is none
    img,          \* ImageUpload: the handler that is running and what it awaits
    storage       \* the objects of the event-banners bucket

fnVars == <<fnPc, fnArgs, fnRet>>

imgVars == <<uploading, preview, img, storage>>

pageVars == <<clock, loading, user, saving, formData, customFields, pc, run, calls, toast, route, imgVars>>

vars == <<fnPc, fnArgs, fnRet, uq, clock, loading, user, saving, formData, customFields, pc, run, calls, toast, route, uploading, preview, img, storage>>

\* JavaScript's undefined and null where a character sequence is expected (an
\* absent string argument, a function that returns a string or null): no
\* character sequence equals them, their one element not being a character.
Undefined == <<"undefined">>

NullCode == <<"null">>

\* null where a plain string or a row is expected.
Null == "null"

Min(a, b) == IF a < b THEN a ELSE b

(***************************************************************************)
(* Character classes                                                       *)
(***************************************************************************)
LowerLetters == <<"a","b","c","d","e","f","g","h","i","j","k","l","m","n","o","p","q","r","s","t","u","v","w","x","y","z">>

UpperLetters == <<"A","B","C","D","E","F","G","H","I","J","K","L","M","N","O","P","Q","R","S","T","U","V","W","X","Y","Z">>

Digits == <<"0","1","2","3","4","5","6","7","8","9">>

Range(s) == {s[i] : i \in 1..Len(s)}

\* The class [a-z0-9] of the regular expressions.
IsLowerAlnum(c) == c \in Range(LowerLetters) \cup Range(Digits)

\* The class [a-z0-9] under the i flag.
IsAlnumIgnoreCase(c) == IsLowerAlnum(c) \/ c \in Range(UpperLetters)

\* String.prototype.toLowerCase on one character.
charToLowerCase(c) ==
    IF \E i \in 1..Len(UpperLetters) : UpperLetters[i] = c
    THEN LowerLetters[CHOOSE i \in 1..Len(UpperLetters) : UpperLetters[i] = c]
    ELSE c

toLowerCase(s) == [i \in 1..Len(s) |-> charToLowerCase(s[i])]

\* s.replace(/[^a-z0-9]/g, ''): every character outside the class is dropped.
stripNonAlnum(s) == SelectSeq(s, IsLowerAlnum)

\* s.substring(0, n)
substring0(s, n) == SubSeq(s, 1, Min(n, Len(s)))

\* s.charAt(i): the character at 0-based index i, the empty string out of range.
charAt(s, i) == IF i >= 0 /\ i < Len(s) THEN <<s[i + 1]>> ELSE <<>>

(***************************************************************************)
(* generateShortCode                                                       *)
(***************************************************************************)
\* Mutant: the alphabet with the look-alike characters left in.
charactersAllAlnum == Digits \o LowerLetters

characters == <<"2","3","4","5","6","7","8","9","a","b","c","d","e","f","g","h","j","k","m","n","p","q","r","s","t","u","v","w","x","y","z">>

targetLength == 7

\* The name-derived prefix: lowercased, stripped, cut to 3 characters.
namePrefix(eventName) == substring0(stripNonAlnum(toLowerCase(eventName)), 3)

\* Mutant: a one-character residue is used as a prefix too.
initialResultAnyPrefix(eventName) ==
    IF eventName # Undefined /\ eventName # <<>>
    THEN IF Len(namePrefix(eventName)) >= 1 THEN namePrefix(eventName) ELSE <<>>
    ELSE <<>>

\* The value of result before the fill loop.
initialResult(eventName) ==
    IF eventName # Undefined /\ eventName # <<>>
    THEN IF Len(namePrefix(eventName)) >= 2 THEN namePrefix(eventName) ELSE <<>>
    ELSE <<>>

\* The fill loop; rnd[k] is Math.floor(Math.random() * characters.length) of
\* the k-th iteration.
RECURSIVE fillRandom(_, _, _)
fillRandom(result, rnd, k) ==
    IF Len(result) < targetLength
    THEN fillRandom(result \o charAt(characters, rnd[k]), rnd, k + 1)
    ELSE result

generateShortCode(eventName, rnd) == fillRandom(initialResult(eventName), rnd, 1)

(***************************************************************************)
(* generateUniqueShortCode                                                 *)
(***************************************************************************)
maxAttempts == 10

\* The error member of a lookup answer: absent, or an error with its code.
NoError == [present |-> FALSE, code |-> ""]

Err(code) == [present |-> TRUE, code |-> code]

\* Before the routine is called. The locals are eventName, attempts and
\* shortCode; the other fields count and remember what the run did:
\*   genCalls       generateShortCode calls made
\*   lastSeed       the argument of the last generateShortCode call
\*   lastGenerated  what the last generateShortCode call returned
\*   lookups        lookups issued
\*   lookedUp       the code the last lookup was issued for
\*   answered       lookups answered
\*   lastAnswer     the last answer
\*   noRows         answers that carried the error PGRST116
\*   result         the value returned, Null before the return
\*   via            "loop" for the return inside the loop, "fallback" after it
UqIdle ==
    [ pc |-> "idle", eventName |-> Undefined, attempts |-> 0, shortCode |-> <<>>,
      genCalls |-> 0, lastSeed |-> Undefined, lastGenerated |-> <<>>,
      lookups |-> 0, lookedUp |-> <<>>, answered |-> 0,
      lastAnswer |-> [data |-> Null, error |-> NoError], noRows |-> 0,
      result |-> NullCode, via |-> "none" ]

\* Mutant: the loop tests attempts <= maxAttempts.
uqLoopOneMore(u, rnd) ==
    IF u.attempts <= maxAttempts
    THEN LET code == generateShortCode(u.eventName, rnd)
         IN  [u EXCEPT !.pc = "lookup", !.shortCode = code,
                       !.genCalls = @ + 1, !.lastSeed = u.eventName, !.lastGenerated = code,
                       !.lookups = @ + 1, !.lookedUp = code]
    ELSE LET code == generateShortCode(Undefined, rnd)
         IN  [u EXCEPT !.pc = "returned", !.result = code, !.via = "fallback",
                       !.genCalls = @ + 1, !.lastSeed = Undefined, !.lastGenerated = code]

\* The loop from its test to the next await (or to the fallback return): a
\* candidate is generated and its lookup issued while attempts < maxAttempts,
\* else one code is generated with no seed and returned.
uqLoop(u, rnd) ==
    IF u.attempts < maxAttempts
    THEN LET code == generateShortCode(u.eventName, rnd)
         IN  [u EXCEPT !.pc = "lookup", !.shortCode = code,
                       !.genCalls = @ + 1, !.lastSeed = u.eventName, !.lastGenerated = code,
                       !.lookups = @ + 1, !.lookedUp = code]
    ELSE LET code == generateShortCode(Undefined, rnd)
         IN  [u EXCEPT !.pc = "returned", !.result = code, !.via = "fallback",
                       !.genCalls = @ + 1, !.lastSeed = Undefined, !.lastGenerated = code]

\* The call: the locals are initialised and the loop is entered.
uqCall(eventName, rnd) == uqLoop([UqIdle EXCEPT !.eventName = eventName], rnd)

\* Mutant: any error of the lookup counts as "available".
uqResumeAnyError(u, ans, rnd) ==
    LET v == [u EXCEPT !.answered = @ + 1, !.lastAnswer = ans,
                      !.noRows = IF ans.error = Err("PGRST116") THEN @ + 1 ELSE @]
    IN  IF ans.error.present
        THEN [v EXCEPT !.pc = "returned", !.result = u.shortCode, !.via = "loop"]
        ELSE uqLoop([v EXCEPT !.attempts = @ + 1], rnd)

\* Mutant: on "no rows" a fresh code is generated and returned.
uqResumeFreshCode(u, ans, rnd) ==
    LET v == [u EXCEPT !.answered = @ + 1, !.lastAnswer = ans,
                      !.noRows = IF ans.error = Err("PGRST116") THEN @ + 1 ELSE @]
    IN  IF ans.error.present /\ ans.error.code = "PGRST116"
        THEN LET code == generateShortCode(u.eventName, rnd)
             IN  [v EXCEPT !.pc = "returned", !.result = code, !.via = "loop",
                           !.genCalls = @ + 1, !.lastSeed = u.eventName, !.lastGenerated = code]
        ELSE uqLoop([v EXCEPT !.attempts = @ + 1], rnd)

\* The lookup answered { data, error }: the candidate is returned when the
\* error is PGRST116, else attempts is incremented and the loop goes on.
uqResume(u, ans, rnd) ==
    LET v == [u EXCEPT !.answered = @ + 1, !.lastAnswer = ans,
                      !.noRows = IF ans.error = Err("PGRST116") THEN @ + 1 ELSE @]
    IN  IF ans.error.present /\ ans.error.code = "PGRST116"
        THEN [v EXCEPT !.pc = "returned", !.result = u.shortCode, !.via = "loop"]
        ELSE uqLoop([v EXCEPT !.attempts = @ + 1], rnd)

\* The awaited lookup rejected: the failure leaves the routine.
uqThrow(u) == [u EXCEPT !.pc = "threw"]

(***************************************************************************)
(* JavaScript numbers and dates                                            *)
(***************************************************************************)
\* A number that may be NaN (the time value of an invalid Date).
Num(n) == [nan |-> FALSE, v |-> n]

NaN == [nan |-> TRUE, v |-> 0]

isNaN(x) == x.nan

\* a - b
jsSub(a, b) == IF a.nan \/ b.nan THEN NaN ELSE Num(a.v - b.v)

\* Math.floor(a / d) for a positive integer d
jsFloorDiv(a, d) == IF a.nan THEN NaN ELSE Num(a.v \div d)

\* a % d: the remainder has the sign of the dividend
jsRem(a, d) ==
    IF a.nan THEN NaN
    ELSE IF a.v >= 0 THEN Num(a.v % d) ELSE Num(0 - ((0 - a.v) % d))

\* a < b, a <= b, a >= b, a === n: false as soon as one side is NaN
jsLt(a, b) == ~a.nan /\ ~b.nan /\ a.v < b.v

jsLe(a, b) == ~a.nan /\ ~b.nan /\ a.v <= b.v

jsGe(a, b) == ~a.nan /\ ~b.nan /\ a.v >= b.v

jsIs(a, n) == ~a.nan /\ a.v = n

\* `${a}`
jsToString(a) == IF a.nan THEN "NaN" ELSE ToString(a.v)

Pad2(n) == IF n < 10 THEN "0" \o ToString(n) ELSE ToString(n)

Pad3(n) == IF n < 10 THEN "00" \o ToString(n) ELSE IF n < 100 THEN "0" \o ToString(n) ELSE ToString(n)

MsPerSecond == 1000

MsPerMinute == 1000 * 60

MsPerHour == 60 * MsPerMinute

\* Date.prototype.toISOString for an instant of 1 January 1970 (UTC).
isoString(ms) ==
    "1970-01-01T" \o Pad2(ms \div MsPerHour) \o ":" \o Pad2((ms \div MsPerMinute) % 60)
        \o ":" \o Pad2((ms \div MsPerSecond) % 60) \o "." \o Pad3(ms % MsPerSecond) \o "Z"

\* The value of a datetime-local input for a whole minute of 1 January 1970
\* (the local time zone is UTC).
localInputString(ms) ==
    "1970-01-01T" \o Pad2(ms \div MsPerHour) \o ":" \o Pad2((ms \div MsPerMinute) % 60)

\* The instants the model's date strings can denote.
Instants ==
    {m * MsPerMinute + o : m \in {0, 1, 2, 3, 4, 45, 59, 60, 61, 90, 120, 121}, o \in {0, 1, 59999}}

\* new Date(text).getTime(): the instant the text denotes in one of the two
\* formats, NaN for any other text (the empty string included).
dateParse(text) ==
    LET hits == {t \in Instants :
                    \/ isoString(t) = text
                    \/ t % MsPerMinute = 0 /\ localInputString(t) = text}
    IN  IF hits = {} THEN NaN ELSE Num(CHOOSE t \in hits : TRUE)

(***************************************************************************)
(* formatEventDuration                                                     *)
(***************************************************************************)
\* `${n} ${word}${n !== 1 ? 's' : ''}`
countWord(n, word) == jsToString(n) \o " " \o word \o (IF ~jsIs(n, 1) THEN "s" ELSE "")

\* Mutant: the minutes are rounded to the nearest minute, not floored.
formatEventDurationRounded(startTime, endTime) ==
    LET durationMs == jsSub(dateParse(endTime), dateParse(startTime))
        totalMinutes == jsFloorDiv(Num(durationMs.v + 30000), MsPerMinute)
        hours == jsFloorDiv(totalMinutes, 60)
        minutes == jsRem(totalMinutes, 60)
    IN  IF jsIs(hours, 0) THEN countWord(minutes, "minute")
        ELSE IF jsIs(minutes, 0) THEN countWord(hours, "hour")
        ELSE countWord(hours, "hour") \o " " \o countWord(minutes, "minute")

formatEventDuration(startTime, endTime) ==
    LET durationMs == jsSub(dateParse(endTime), dateParse(startTime))
        totalMinutes == jsFloorDiv(durationMs, MsPerMinute)
        hours == jsFloorDiv(totalMinutes, 60)
        minutes == jsRem(totalMinutes, 60)
    IN  IF jsIs(hours, 0) THEN countWord(minutes, "minute")
        ELSE IF jsIs(minutes, 0) THEN countWord(hours, "hour")
        ELSE countWord(hours, "hour") \o " " \o countWord(minutes, "minute")

(***************************************************************************)
(* createShareableEventURL / extractShortCodeFromURL                       *)
(***************************************************************************)
\* The origin used when there is no window (a server-side call).
fallbackOrigin == <<"h","t","t","p","s",":","/","/","p","o","l","k","a","r","e","n","a",".","m","o","n","t","a","q",".","o","r","g">>

\* windowOrigin is window.location.origin, Undefined when there is no window.
createShareableEventURL(shortCode, baseUrl, windowOrigin) ==
    LET base == IF baseUrl # Undefined /\ baseUrl # <<>> THEN baseUrl
                ELSE IF windowOrigin # Undefined THEN windowOrigin
                ELSE fallbackOrigin
    IN  base \o <<"/", "e", "/">> \o shortCode

\* The positions where /\/e\/([a-z0-9]+)/i matches: "/e/" (any case) followed
\* by at least one alphanumeric.
matchStarts(url) ==
    {i \in 1..(Len(url) - 3) :
        /\ url[i] = "/"
        /\ charToLowerCase(url[i + 1]) = "e"
        /\ url[i + 2] = "/"
        /\ IsAlnumIgnoreCase(url[i + 3])}

\* The greedy group [a-z0-9]+ from position j: the longest alphanumeric run.
RECURSIVE alnumRun(_, _)
alnumRun(url, j) ==
    IF j <= Len(url) /\ IsAlnumIgnoreCase(url[j])
    THEN <<url[j]>> \o alnumRun(url, j + 1)
    ELSE <<>>

\* url.match(...) takes the leftmost match; the result is its group or null.
extractShortCodeFromURL(url) ==
    IF matchStarts(url) = {} THEN NullCode
    ELSE LET i == CHOOSE k \in matchStarts(url) : \A l \in matchStarts(url) : k <= l
         IN  alnumRun(url, i + 3)

(***************************************************************************)
(* CreateEventPage: state                                                  *)
(***************************************************************************)
CreateRoute == "/events/create"

NoUser == [id |-> Null, email |-> Null]

\* formData as useState initialises it.
EmptyForm ==
    [ name |-> <<>>, description |-> "", start_time |-> "", end_time |-> "",
      location |-> "", is_online |-> FALSE, participant_limit |-> "", tags |-> "",
      registration_deadline |-> "", website_url |-> "", discord_url |-> "",
      twitter_url |-> "", requirements |-> "", banner_image_url |-> "" ]

NoToast == [type |-> "none", message |-> ""]

ToastError(message) == [type |-> "error", message |-> message]

ToastSuccess(message) == [type |-> "success", message |-> message]

\* The answer of the profile lookup: data is null, or a row with its name.
NoProfile == [present |-> FALSE, name |-> Null]

\* A handleSubmit run before it starts: the formData and customFields its
\* closure holds, the local now, and the local userProfile.
NoRun ==
    [ started |-> FALSE, formData |-> EmptyForm, customFields |-> <<>>,
      now |-> Num(0), userProfile |-> NoProfile ]

\* The external calls of a handleSubmit run: profile lookups issued, the
\* create-requests issued, each with the record sent and the clock at sending,
\* and how the create-request ended ("none", "ok", "error" with the store's
\* message, "threw").
NoCalls == [profile |-> 0, inserts |-> <<>>, insertOutcome |-> "none", insertError |-> ""]

\* ImageUpload with no handler running: the handleFileSelect run (its
\* position, the file it took, the path it uploads to and the onChange its
\* closure holds, which spreads the formData of the render it was made in),
\* the FileReaders that have been started and have not fired onload yet,
\* the handleRemove runs that await the storage, how the last handleFileSelect
\* run ended and the path it reported ("none" again once the user picks a
\* file or removes the image), and, of the last delete that settled, the path
\* and how it ended ("none", "ok", "error", "threw").
ImgIdle ==
    [ pc |-> "idle", file |-> "", fileName |-> "", formData |-> EmptyForm,
      readers |-> {}, removes |-> {},
      lastUpload |-> "none", reported |-> "none",
      lastRemove |-> [value |-> "", outcome |-> "none"] ]

(***************************************************************************)
(* handleSubmit                                                            *)
(***************************************************************************)
Ok == [kind |-> "ok", message |-> ""]

Reject(message) == [kind |-> "reject", message |-> message]

Throw(message) == [kind |-> "throw", message |-> message]

\* Mutant: the end time may equal the start time.
validateAllowsEqualEnd(fd, now) ==
    IF fd.name = <<>> \/ fd.description = "" \/ fd.start_time = "" \/ fd.end_time = ""
    THEN Reject("Please fill in all required fields")
    ELSE
    LET startTime == dateParse(fd.start_time)
        endTime == dateParse(fd.end_time)
        registrationDeadline == dateParse(fd.registration_deadline)
    IN  IF isNaN(startTime) \/ isNaN(endTime) THEN Throw("Invalid time value")
        ELSE IF jsLt(startTime, now) THEN Reject("Start time cannot be in the past")
        ELSE IF jsLt(endTime, startTime) THEN Reject("End time must be after start time")
        ELSE IF fd.registration_deadline # ""
        THEN IF isNaN(registrationDeadline)
             THEN Reject("Please enter a valid registration deadline")
             ELSE IF jsGe(registrationDeadline, startTime)
             THEN Reject("Registration deadline must be before start time")
             ELSE IF jsLt(registrationDeadline, now)
             THEN Reject("Registration deadline cannot be in the past")
             ELSE Ok
        ELSE Ok

\* Mutant: the deadline is not compared with the current time.
validateNoDeadlinePastCheck(fd, now) ==
    IF fd.name = <<>> \/ fd.description = "" \/ fd.start_time = "" \/ fd.end_time = ""
    THEN Reject("Please fill in all required fields")
    ELSE
    LET startTime == dateParse(fd.start_time)
        endTime == dateParse(fd.end_time)
        registrationDeadline == dateParse(fd.registration_deadline)
    IN  IF isNaN(startTime) \/ isNaN(endTime) THEN Throw("Invalid time value")
        ELSE IF jsLt(startTime, now) THEN Reject("Start time cannot be in the past")
        ELSE IF jsLe(endTime, startTime) THEN Reject("End time must be after start time")
        ELSE IF fd.registration_deadline # ""
        THEN IF isNaN(registrationDeadline)
             THEN Reject("Please enter a valid registration deadline")
             ELSE IF jsGe(registrationDeadline, startTime)
             THEN Reject("Registration deadline must be before start time")
             ELSE Ok
        ELSE Ok

\* The synchronous part of handleSubmit from the required-field test to the
\* first await: Ok, the rejection with its message, or the RangeError that
\* startTime.toISOString() / endTime.toISOString() throw for an invalid Date
\* in the console.log that precedes the invalid-date test.
validate(fd, now) ==
    IF fd.name = <<>> \/ fd.description = "" \/ fd.start_time = "" \/ fd.end_time = ""
    THEN Reject("Please fill in all required fields")
    ELSE
    LET startTime == dateParse(fd.start_time)
        endTime == dateParse(fd.end_time)
        registrationDeadline == dateParse(fd.registration_deadline)
    IN  IF isNaN(startTime) \/ isNaN(endTime) THEN Throw("Invalid time value")
        ELSE IF isNaN(startTime) \/ isNaN(endTime)
        THEN Reject("Please enter valid start and end times")
        ELSE IF jsLt(startTime, now) THEN Reject("Start time cannot be in the past")
        ELSE IF jsLe(endTime, startTime) THEN Reject("End time must be after start time")
        ELSE IF fd.registration_deadline # ""
        THEN IF isNaN(registrationDeadline)
             THEN Reject("Please enter a valid registration deadline")
             ELSE IF jsGe(registrationDeadline, startTime)
             THEN Reject("Registration deadline must be before start time")
             ELSE IF jsLt(registrationDeadline, now)
             THEN Reject("Registration deadline cannot be in the past")
             ELSE Ok
        ELSE Ok

\* a || b || c for strings: the first that is neither null nor empty.
firstTruthy(a, b, c) ==
    IF a # Null /\ a # "" THEN a ELSE IF b # Null /\ b # "" THEN b ELSE c

orNull(x) == IF x = "" THEN Null ELSE x

\* The record handleSubmit assembles for the insert. The fields no step of
\* the model edits (location, participant_limit, tags, the links,
\* requirements, banner_image_url) are empty, which the code sends as null.
eventData(fd, fields, usr, userProfile, shortCode) ==
    [ name |-> fd.name,
      description |-> fd.description,
      start_time |-> isoString(dateParse(fd.start_time).v),
      end_time |-> isoString(dateParse(fd.end_time).v),
      organizer_id |-> usr.id,
      organizer_name |-> firstTruthy(userProfile.name, usr.email, "Anonymous"),
      location |-> orNull(fd.location),
      is_online |-> fd.is_online,
      participant_limit |-> orNull(fd.participant_limit),
      tags |-> orNull(fd.tags),
      custom_fields |-> IF Len(fields) > 0 THEN fields ELSE Null,
      registration_deadline |->
          IF fd.registration_deadline # ""
          THEN isoString(dateParse(fd.registration_deadline).v)
          ELSE Null,
      website_url |-> orNull(fd.website_url),
      discord_url |-> orNull(fd.discord_url),
      twitter_url |-> orNull(fd.twitter_url),
      requirements |-> orNull(fd.requirements),
      banner_image_url |-> orNull(fd.banner_image_url),
      short_code |-> shortCode ]

(***************************************************************************)
(* Inputs of the utility calls                                             *)
(***************************************************************************)
\* Values of Math.floor(Math.random() * characters.length) that are drawn:
\* the first, the last and two inner indices of the alphabet.
RandomFloors == {0, 8, 30}

\* A random stream long enough for one generateShortCode call.
RandomStreams == [1..targetLength -> RandomFloors]

\* Seed names: none, empty, and names whose cleaned prefix has 0, 1, 2, 3 and
\* more characters, with upper case, punctuation and the characters 0 1 i l o.
SeedNames ==
    { Undefined,
      <<>>,
      <<"-","-"," ">>,
      <<"x">>,
      <<"-","Q","-">>,
      <<"a","1">>,
      <<"L","i","o","n"," ","D","e","n">>,
      <<"W","e","b","3"," ","S","u","m","m","i","t">>,
      <<"0","1"," ","H","a","c","k">> }

\* Timestamp texts with the instant each denotes: ISO texts down to the
\* millisecond, datetime-local texts, and two texts that denote no instant.
TimeInputs ==
    {[text |-> isoString(t), ms |-> Num(t)] : t \in Instants}
        \cup {[text |-> localInputString(t), ms |-> Num(t)] :
                 t \in {u \in Instants : u % MsPerMinute = 0}}
        \cup {[text |-> "", ms |-> NaN], [text |-> "tomorrow", ms |-> NaN]}

\* Short codes handed to the URL helpers: every non-empty code of up to
\* MaxCodeLen characters over two alphabet characters.
CodeChars == {"2", "e"}

MaxCodeLen == 7

Codes == UNION {[1..n -> CodeChars] : n \in 1..MaxCodeLen}

\* window.location.origin: the production site, a development server, a host
\* whose first label is "e", a host that is the single label "e", or no
\* window at all.
WindowOrigins ==
    { Undefined,
      <<"h","t","t","p","s",":","/","/","p","o","l","k","a","r","e","n","a",".","m","o","n","t","a","q",".","o","r","g">>,
      <<"h","t","t","p",":","/","/","l","o","c","a","l","h","o","s","t",":","3","0","0","0">>,
      <<"h","t","t","p","s",":","/","/","e",".","e","x","a","m","p","l","e",".","o","r","g">>,
      <<"h","t","t","p",":","/","/","e">> }

\* The optional baseUrl argument: absent, empty, or an explicit base.
BaseUrls ==
    { Undefined,
      <<>>,
      <<"h","t","t","p","s",":","/","/","x",".","i","o">> }

\* What the uniqueness lookup answers: a matching row, "no rows" (PGRST116),
\* or another error (a permission error, a failed request).
LookupAnswers ==
    { [data |-> "row", error |-> NoError],
      [data |-> Null, error |-> Err("PGRST116")],
      [data |-> Null, error |-> Err("42501")] }

\* The random streams drawn while a unique code is generated.
UniqueStreams ==
    { [k \in 1..targetLength |-> 0],
      [k \in 1..targetLength |-> IF k % 2 = 0 THEN 8 ELSE 30] }

\* The seeds generateUniqueShortCode is called with.
UniqueSeeds ==
    { Undefined,
      <<"x">>,
      <<"L","i","o","n"," ","D","e","n">> }

\* The signed-in user.
SomeUser == [id |-> "user-1", email |-> "organizer@example.org"]

\* What the profile lookup answers: a row with a name, a row without one, no row.
ProfileAnswers ==
    { [present |-> TRUE, name |-> "Dana"],
      [present |-> FALSE, name |-> Null] }

\* What the insert answers: the created row, or an error with its message.
InsertAnswers ==
    { [data |-> "event-1", error |-> [present |-> FALSE, message |-> ""]],
      [data |-> Null, error |-> [present |-> TRUE,
          message |-> "duplicate key value violates unique constraint"]],
      [data |-> Null, error |-> [present |-> TRUE, message |-> "permission denied"]] }

\* The wall clock starts one minute after the epoch and is followed for
\* MaxClockMinutes minutes.
MaxClockMinutes == 3

\* The custom-field lists the form can hold when it is submitted.
FieldLists ==
    { <<>>,
      <<[id |-> "60000", name |-> "Team", type |-> "text", required |-> FALSE,
         options |-> <<>>]>> }

\* Event names typed into the form.
FormNames == { <<>>, <<"H","i","!">> }

FormDescriptions == { "", "A meetup" }

\* Values of the datetime-local inputs: empty, a text that is no date, and
\* minutes 0 to 3 of the model's day.
FormTimes ==
    { "", "tomorrow" } \cup {localInputString(m * MsPerMinute) : m \in 0..3}

\* The forms the user can have typed.
Forms ==
    { [EmptyForm EXCEPT !.name = n, !.description = d, !.start_time = s,
                        !.end_time = e, !.registration_deadline = r] :
        n \in FormNames, d \in FormDescriptions, s \in FormTimes, e \in FormTimes,
        r \in FormTimes }

(***************************************************************************)
(* The parts of the state a specification leaves at rest                   *)
(***************************************************************************)
ImgAtRest ==
    /\ uploading = FALSE
    /\ preview = Null
    /\ img = ImgIdle
    /\ storage = {}

PageAtRest ==
    /\ clock = 0
    /\ loading = TRUE
    /\ user = NoUser
    /\ saving = FALSE
    /\ formData = EmptyForm
    /\ customFields = <<>>
    /\ pc = "idle"
    /\ run = NoRun
    /\ calls = NoCalls
    /\ toast = NoToast
    /\ route = CreateRoute
    /\ ImgAtRest

FnAtRest ==
    /\ fnPc = "ready"
    /\ fnArgs = <<>>
    /\ fnRet = <<>>

(***************************************************************************)
(* Specification of generateShortCode calls                                *)
(***************************************************************************)
GenInit ==
    /\ uq = UqIdle
    /\ PageAtRest
    /\ fnPc = "ready"
    /\ fnArgs \in [eventName : SeedNames, rnd : RandomStreams]
    /\ fnRet = <<>>

CallGenerateShortCode ==
    /\ fnPc = "ready"
    /\ fnPc' = "returned"
    /\ fnRet' = generateShortCode(fnArgs.eventName, fnArgs.rnd)
    /\ UNCHANGED <<fnArgs, uq, pageVars>>

GenNext == CallGenerateShortCode

GenSpec == GenInit /\ [][GenNext]_vars

(***************************************************************************)
(* Claims about generateShortCode (checked under GenSpec)                  *)
(***************************************************************************)
\* The alphanumerics without the five look-alike characters 0 1 i l o.
UnambiguousAlnum == (Range(LowerLetters) \cup Range(Digits)) \ {"0", "1", "i", "l", "o"}

\* C1 as stated: every returned code has length 7 and consists only of
\* characters of the generator alphabet, prefix characters included, and that
\* alphabet has 32 symbols, none of them 0, 1, i, l or o.
C1_AllCharsInAlphabet32 ==
    fnPc = "returned" =>
        /\ Len(fnRet) = 7
        /\ \A i \in 1..Len(fnRet) : fnRet[i] \in Range(characters)
        /\ Cardinality(Range(characters)) = 32
        /\ Range(characters) \cap {"0", "1", "i", "l", "o"} = {}

\* C1 as amended: every returned code has length 7 and consists of lowercase
\* alphanumerics; the characters after the first three always belong to the
\* generator alphabet, and so do the first three unless they are the
\* name-derived prefix; the alphabet has 31 distinct symbols, exactly the
\* lowercase alphanumerics other than 0, 1, i, l and o.
C1_LengthAndAlphabet ==
    fnPc = "returned" =>
        /\ Len(fnRet) = 7
        /\ \A i \in 1..Len(fnRet) : IsLowerAlnum(fnRet[i])
        /\ \A i \in 4..Len(fnRet) : fnRet[i] \in UnambiguousAlnum
        /\ \A i \in 1..Min(3, Len(fnRet)) :
               \/ fnRet[i] \in UnambiguousAlnum
               \/ /\ fnArgs.eventName # Undefined
                  /\ i <= Len(namePrefix(fnArgs.eventName))
                  /\ fnRet[i] = namePrefix(fnArgs.eventName)[i]
        /\ Len(characters) = 31
        /\ Range(characters) = UnambiguousAlnum

\* A code whose name-derived prefix holds characters outside the alphabet.
C1_Witness ==
    /\ fnPc = "returned"
    /\ fnArgs.eventName = <<"L","i","o","n"," ","D","e","n">>
    /\ SubSeq(fnRet, 1, 3) = <<"l","i","o">>
    /\ fnRet[7] = "z"

\* The k-th random character of a call: the alphabet character at the k-th
\* drawn index.
RandomChar(k) == characters[fnArgs.rnd[k] + 1]

\* C2: with p the seed lowercased, stripped to [a-z0-9] and cut to 3
\* characters, a code from a seed with |p| in {2, 3} is p followed by 7 - |p|
\* random alphabet characters, and a code from a seed with |p| in {0, 1} (or
\* from no seed) is 7 random alphabet characters.
C2_PrefixRule ==
    fnPc = "returned" =>
        LET p == IF fnArgs.eventName = Undefined THEN <<>>
                 ELSE namePrefix(fnArgs.eventName)
            used == IF Len(p) >= 2 THEN p ELSE <<>>
        IN  /\ Len(p) <= 3
            /\ fnRet = used \o [k \in 1..(7 - Len(used)) |-> RandomChar(k)]

\* A seed with upper case and punctuation whose 3-character prefix is used.
C2_Witness ==
    /\ fnPc = "returned"
    /\ fnArgs.eventName = <<"W","e","b","3"," ","S","u","m","m","i","t">>
    /\ SubSeq(fnRet, 1, 3) = <<"w","e","b">>
    /\ fnRet[4] = "a"

\* A seed whose cleaned prefix has one character: the character is dropped.
C2_WitnessDropped ==
    /\ fnPc = "returned"
    /\ fnArgs.eventName = <<"-","Q","-">>
    /\ fnRet[1] = "2"

(***************************************************************************)
(* Specification of formatEventDuration calls                              *)
(***************************************************************************)
DurInit ==
    /\ uq = UqIdle
    /\ PageAtRest
    /\ fnPc = "ready"
    /\ fnArgs \in [start : TimeInputs, end : TimeInputs]
    /\ fnRet = ""

CallFormatEventDuration ==
    /\ fnPc = "ready"
    /\ fnPc' = "returned"
    /\ fnRet' = formatEventDuration(fnArgs.start.text, fnArgs.end.text)
    /\ UNCHANGED <<fnArgs, uq, pageVars>>

DurNext == CallFormatEventDuration

DurSpec == DurInit /\ [][DurNext]_vars

(***************************************************************************)
(* Claims about formatEventDuration (checked under DurSpec)                *)
(***************************************************************************)
\* "<n> <word>", with the plural s unless n is 1.
C10_Unit(n, word) == ToString(n) \o " " \o word \o (IF n = 1 THEN "" ELSE "s")

\* The whole minutes from the start instant to the end instant.
C10_Minutes == (fnArgs.end.ms.v - fnArgs.start.ms.v) \div 60000

\* C10: for timestamps with end at or after start, with d the whole minutes
\* between them, h = d div 60 and m = d mod 60, the text is "<m> minute(s)"
\* when h = 0, "<h> hour(s)" when h > 0 and m = 0, and both otherwise, the
\* word singular exactly for 1; 90 -> "1 hour 30 minutes", 60 -> "1 hour",
\* 45 -> "45 minutes", 61 -> "1 hour 1 minute", 1 -> "1 minute".
C10_DurationText ==
    (/\ fnPc = "returned"
     /\ ~fnArgs.start.ms.nan
     /\ ~fnArgs.end.ms.nan
     /\ fnArgs.end.ms.v >= fnArgs.start.ms.v) =>
        LET d == C10_Minutes
            h == d \div 60
            m == d % 60
        IN  /\ fnRet = IF h = 0 THEN C10_Unit(m, "minute")
                       ELSE IF m = 0 THEN C10_Unit(h, "hour")
                       ELSE C10_Unit(h, "hour") \o " " \o C10_Unit(m, "minute")
            /\ d = 90 => fnRet = "1 hour 30 minutes"
            /\ d = 60 => fnRet = "1 hour"
            /\ d = 45 => fnRet = "45 minutes"
            /\ d = 61 => fnRet = "1 hour 1 minute"
            /\ d = 1 => fnRet = "1 minute"

\* A duration of 61 minutes and 59.999 seconds, rendered "1 hour 1 minute".
C10_Witness ==
    /\ fnPc = "returned"
    /\ fnArgs.start.text = "1970-01-01T00:00"
    /\ fnArgs.end.text = "1970-01-01T01:01:59.999Z"
    /\ fnRet = "1 hour 1 minute"

(***************************************************************************)
(* Specification of the URL round trip                                     *)
(***************************************************************************)
UrlInit ==
    /\ uq = UqIdle
    /\ PageAtRest
    /\ fnPc = "ready"
    /\ fnArgs \in [shortCode : Codes, baseUrl : BaseUrls, origin : WindowOrigins]
    /\ fnRet = [url |-> <<>>, code |-> NullCode]

\* extractShortCodeFromURL(createShareableEventURL(shortCode, baseUrl))
CallRoundTrip ==
    /\ fnPc = "ready"
    /\ fnPc' = "returned"
    /\ LET url == createShareableEventURL(fnArgs.shortCode, fnArgs.baseUrl, fnArgs.origin)
       IN  fnRet' = [url |-> url, code |-> extractShortCodeFromURL(url)]
    /\ UNCHANGED <<fnArgs, uq, pageVars>>

UrlNext == CallRoundTrip

UrlSpec == UrlInit /\ [][UrlNext]_vars

(***************************************************************************)
(* Claims about the URL helpers (checked under UrlSpec)                    *)
(***************************************************************************)
\* C6: for every non-empty code of alphabet characters, the code extracted
\* from the URL built from the runtime origin or the fallback origin (no
\* baseUrl given) is that code.
C6_RoundTrip ==
    (/\ fnPc = "returned"
     /\ fnArgs.baseUrl = Undefined
     /\ fnArgs.shortCode # <<>>
     /\ \A i \in 1..Len(fnArgs.shortCode) : fnArgs.shortCode[i] \in Range(characters)) =>
        fnRet.code = fnArgs.shortCode

\* The round trip where it does hold: the fallback origin.
C6_RoundTripOnFallback ==
    (/\ fnPc = "returned"
     /\ fnArgs.baseUrl = Undefined
     /\ fnArgs.origin = Undefined) =>
        fnRet.code = fnArgs.shortCode

(***************************************************************************)
(* The steps of generateUniqueShortCode after an await                     *)
(***************************************************************************)
\* The awaited lookup answers { data, error }.
LookupAnswer ==
    /\ uq.pc = "lookup"
    /\ \E ans \in LookupAnswers, rnd \in UniqueStreams : uq' = uqResume(uq, ans, rnd)
    /\ UNCHANGED <<fnVars, pageVars>>

\* The awaited lookup rejects.
LookupThrows ==
    /\ uq.pc = "lookup"
    /\ uq' = uqThrow(uq)
    /\ UNCHANGED <<fnVars, pageVars>>

(***************************************************************************)
(* Specification of generateUniqueShortCode runs                           *)
(***************************************************************************)
UniqueInit ==
    /\ PageAtRest
    /\ uq = UqIdle
    /\ fnPc = "ready"
    /\ fnArgs \in [eventName : UniqueSeeds]
    /\ fnRet = <<>>

CallGenerateUniqueShortCode ==
    /\ fnPc = "ready"
    /\ fnPc' = "called"
    /\ \E rnd \in UniqueStreams : uq' = uqCall(fnArgs.eventName, rnd)
    /\ UNCHANGED <<fnArgs, fnRet, pageVars>>

UniqueNext == CallGenerateUniqueShortCode \/ LookupAnswer \/ LookupThrows

\* Every awaited lookup settles: it answers or it rejects.
UniqueSpec == UniqueInit /\ [][UniqueNext]_vars /\ WF_vars(UniqueNext)

(***************************************************************************)
(* Claims about generateUniqueShortCode (checked under UniqueSpec)         *)
(***************************************************************************)
\* The safety part of C3.
C3_Bounded ==
    /\ uq.lookups <= 10
    /\ (uq.pc = "returned" /\ uq.noRows = 0) =>
           /\ uq.via = "fallback"
           /\ uq.lookups = 10
           /\ uq.answered = 10
           /\ uq.genCalls = 11
           /\ uq.lastSeed = Undefined
           /\ uq.result = uq.lastGenerated

\* C3: whatever the lookups answer, at most 10 lookups are issued and a run
\* that is waiting for a lookup ends; when the routine returns and no lookup
\* reported "no rows", 10 lookups were issued and answered and the value
\* returned is the result of an 11th generateShortCode call, made with no
\* seed, for which no lookup was issued.
C3_AtMostTenLookupsThenFallback ==
    /\ []C3_Bounded
    /\ (uq.pc = "lookup") ~> (uq.pc \in {"returned", "threw"})

\* Ten lookups found a row or failed, and the unseeded fallback is returned.
C3_Witness ==
    /\ uq.pc = "returned"
    /\ uq.via = "fallback"
    /\ uq.eventName = <<"L","i","o","n"," ","D","e","n">>
    /\ uq.lookups = 10
    /\ uq.noRows = 0
    /\ uq.result = <<"2","2","2","2","2","2","2">>

\* C4: when the lookup first reports "no rows" on attempt N (1 <= N <= 10),
\* exactly N lookups were issued, generateShortCode was called N times and
\* not again, and the value returned is the code generated on attempt N,
\* the one the N-th lookup was issued for.
C4_ReturnsNthCode ==
    (uq.pc = "returned" /\ uq.noRows > 0) =>
        /\ uq.noRows = 1
        /\ uq.lastAnswer.error = Err("PGRST116")
        /\ uq.answered \in 1..10
        /\ uq.lookups = uq.answered
        /\ uq.genCalls = uq.answered
        /\ uq.lastSeed = uq.eventName
        /\ uq.result = uq.lastGenerated
        /\ uq.result = uq.lookedUp

\* The third lookup is the first to report "no rows".
C4_Witness ==
    /\ uq.pc = "returned"
    /\ uq.noRows = 1
    /\ uq.answered = 3
    /\ uq.lookups = 3
    /\ uq.result = <<"l","i","o","z","a","z","a">>

\* C5: a candidate is returned from inside the loop only when its lookup
\* answered with the error PGRST116; while the lookups answer with a row or
\* with another error nothing is returned and each such answer uses up
\* exactly one of the 10 attempts.
C5_OnlyNoRowsReturnsCandidate ==
    /\ uq.via = "loop" =>
           /\ uq.pc = "returned"
           /\ uq.lastAnswer.error = Err("PGRST116")
           /\ uq.result = uq.lookedUp
    /\ uq.attempts = uq.answered - uq.noRows
    /\ uq.attempts <= 10
    /\ (uq.answered > 0 /\ uq.lastAnswer.error # Err("PGRST116")) =>
           /\ uq.via # "loop"
           /\ uq.pc = "lookup" => uq.result = NullCode

\* A lookup failed with an error other than PGRST116: the run goes on.
C5_Witness ==
    /\ uq.pc = "lookup"
    /\ uq.lastAnswer.error = Err("42501")
    /\ uq.attempts = 2
    /\ uq.result = NullCode


(***************************************************************************)
(* CreateEventPage: the steps                                              *)
(***************************************************************************)
\* The form is on screen and takes input.
FormShown == ~loading /\ route = CreateRoute

\* The getUser effect: no user (redirect to login), ensureUserProfile failing
\* (toast and redirect), or the user is set and loading ends.
GetUser ==
    /\ loading
    /\ route = CreateRoute
    /\ \E outcome \in {"none", "profileError", "ok"} :
          CASE outcome = "none" ->
                  /\ route' = "/auth/login"
                  /\ UNCHANGED <<user, loading, toast>>
            [] outcome = "profileError" ->
                  /\ toast' = ToastError("Failed to load user profile")
                  /\ route' = "/auth/login"
                  /\ UNCHANGED <<user, loading>>
            [] outcome = "ok" ->
                  /\ user' = SomeUser
                  /\ loading' = FALSE
                  /\ UNCHANGED <<toast, route>>
    /\ UNCHANGED <<fnVars, imgVars, uq, clock, saving, formData, customFields, pc, run, calls>>

\* Time passes.
Tick ==
    /\ clock < MaxClockMinutes * MsPerMinute
    /\ clock' = clock + MsPerMinute
    /\ UNCHANGED <<fnVars, imgVars, uq, loading, user, saving, formData, customFields, pc, run,
                   calls, toast, route>>

\* The name input's onChange: setFormData({ ...formData, name: value }).
\* (The other inputs have the same handler; what the user typed into them
\* before submitting is chosen by the initial state.)
EditName ==
    /\ FormShown
    /\ \E v \in FormNames : formData' = [formData EXCEPT !.name = v]
    /\ formData' # formData
    /\ UNCHANGED <<fnVars, imgVars, uq, clock, loading, user, saving, customFields, pc, run, calls,
                   toast, route>>

\* Mutant: the submit control is not disabled while saving is true.
SubmitWhileSaving ==
    /\ FormShown
    /\ user.id # Null
    /\ LET now == Num(clock)
           v == validate(formData, now)
       IN  /\ run' = [started |-> TRUE, formData |-> formData,
                      customFields |-> customFields, now |-> now,
                      userProfile |-> NoProfile]
           /\ uq' = UqIdle
           /\ CASE v.kind = "ok" ->
                      /\ saving' = TRUE
                      /\ pc' = "profile"
                      /\ calls' = [NoCalls EXCEPT !.profile = 1]
                      /\ UNCHANGED toast
                [] v.kind = "reject" ->
                      /\ toast' = ToastError(v.message)
                      /\ saving' = FALSE
                      /\ pc' = "idle"
                      /\ calls' = NoCalls
                [] v.kind = "throw" ->
                      /\ toast' = ToastError("Failed to create event")
                      /\ saving' = FALSE
                      /\ pc' = "idle"
                      /\ calls' = NoCalls
    /\ UNCHANGED <<fnVars, imgVars, clock, loading, user, formData, customFields, route>>

\* handleSubmit up to its first await: the submit button is enabled only
\* while saving is false; setSaving(true), the validation, and then either
\* the rejection (toast, setSaving(false)), the catch block (a RangeError),
\* or the profile lookup is issued.
Submit ==
    /\ FormShown
    /\ ~saving
    /\ user.id # Null
    /\ LET now == Num(clock)
           v == validate(formData, now)
       IN  /\ run' = [started |-> TRUE, formData |-> formData,
                      customFields |-> customFields, now |-> now,
                      userProfile |-> NoProfile]
           /\ uq' = UqIdle
           /\ CASE v.kind = "ok" ->
                      /\ saving' = TRUE
                      /\ pc' = "profile"
                      /\ calls' = [NoCalls EXCEPT !.profile = 1]
                      /\ UNCHANGED toast
                [] v.kind = "reject" ->
                      /\ toast' = ToastError(v.message)
                      /\ saving' = FALSE
                      /\ pc' = "idle"
                      /\ calls' = NoCalls
                [] v.kind = "throw" ->
                      /\ toast' = ToastError("Failed to create event")
                      /\ saving' = FALSE
                      /\ pc' = "idle"
                      /\ calls' = NoCalls
    /\ UNCHANGED <<fnVars, imgVars, clock, loading, user, formData, customFields, route>>

\* Mutant: the catch block without the finally block.
CatchWithoutFinally ==
    /\ toast' = ToastError("Failed to create event")
    /\ saving' = saving
    /\ pc' = "idle"

\* The catch and finally blocks of handleSubmit.
CatchAndFinally ==
    /\ toast' = ToastError("Failed to create event")
    /\ saving' = FALSE
    /\ pc' = "idle"

\* The profile lookup answers: generateUniqueShortCode(formData.name) is
\* called and runs to its first lookup.
ProfileAnswer ==
    /\ pc = "profile"
    /\ \E ans \in ProfileAnswers, rnd \in UniqueStreams :
          /\ run' = [run EXCEPT !.userProfile = ans]
          /\ uq' = uqCall(run.formData.name, rnd)
    /\ pc' = "shortCode"
    /\ UNCHANGED <<fnVars, imgVars, clock, loading, user, saving, formData, customFields, calls,
                   toast, route>>

\* The profile lookup rejects.
ProfileThrows ==
    /\ pc = "profile"
    /\ CatchAndFinally
    /\ UNCHANGED <<fnVars, imgVars, uq, clock, loading, user, formData, customFields, run, calls,
                   route>>

\* Mutant: generateUniqueShortCode is not awaited before the insert is issued.
IssueInsertWithoutAwait ==
    /\ pc = "shortCode"
    /\ uq.pc \in {"lookup", "returned"}
    /\ pc' = "insert"
    /\ calls' = [calls EXCEPT !.inserts = Append(@,
          [record |-> eventData(run.formData, run.customFields, user, run.userProfile,
                                uq.result),
           at |-> clock])]
    /\ UNCHANGED <<fnVars, imgVars, uq, clock, loading, user, saving, formData, customFields, run,
                   toast, route>>

\* generateUniqueShortCode returned: the record is assembled and the insert
\* is issued.
IssueInsert ==
    /\ pc = "shortCode"
    /\ uq.pc = "returned"
    /\ pc' = "insert"
    /\ calls' = [calls EXCEPT !.inserts = Append(@,
          [record |-> eventData(run.formData, run.customFields, user, run.userProfile,
                                uq.result),
           at |-> clock])]
    /\ UNCHANGED <<fnVars, imgVars, uq, clock, loading, user, saving, formData, customFields, run,
                   toast, route>>

\* generateUniqueShortCode failed.
ShortCodeThrows ==
    /\ pc = "shortCode"
    /\ uq.pc = "threw"
    /\ CatchAndFinally
    /\ UNCHANGED <<fnVars, imgVars, uq, clock, loading, user, formData, customFields, run, calls,
                   route>>

\* Mutant: the error branch does not return, so the success path runs too.
InsertAnswerNoReturn ==
    /\ pc = "insert"
    /\ \E ans \in InsertAnswers :
          /\ toast' = ToastSuccess("Event created successfully!")
          /\ route' = "/events/" \o (IF ans.data = Null THEN "undefined" ELSE ans.data)
          /\ calls' = [calls EXCEPT
                 !.insertOutcome = IF ans.error.present THEN "error" ELSE "ok",
                 !.insertError = ans.error.message]
    /\ saving' = FALSE
    /\ pc' = "idle"
    /\ UNCHANGED <<fnVars, imgVars, uq, clock, loading, user, formData, customFields, run>>

\* The insert answers { data, error }: on an error the toast carries its
\* message; else the success toast and the navigation to the new event.
InsertAnswer ==
    /\ pc = "insert"
    /\ \E ans \in InsertAnswers :
          /\ IF ans.error.present
             THEN /\ toast' = ToastError("Failed to create event: " \o ans.error.message)
                  /\ UNCHANGED route
             ELSE /\ toast' = ToastSuccess("Event created successfully!")
                  /\ route' = "/events/" \o ans.data
          /\ calls' = [calls EXCEPT
                 !.insertOutcome = IF ans.error.present THEN "error" ELSE "ok",
                 !.insertError = ans.error.message]
    /\ saving' = FALSE
    /\ pc' = "idle"
    /\ UNCHANGED <<fnVars, imgVars, uq, clock, loading, user, formData, customFields, run>>

\* The insert rejects.
InsertThrows ==
    /\ pc = "insert"
    /\ CatchAndFinally
    /\ calls' = [calls EXCEPT !.insertOutcome = "threw"]
    /\ UNCHANGED <<fnVars, imgVars, uq, clock, loading, user, formData, customFields, run, route>>

\* The external calls of the handleSubmit run that have been issued and have
\* not settled: each await of handleSubmit and of generateUniqueShortCode
\* holds the run until its call settles.
inFlight ==
    (IF pc = "profile" THEN {"profile"} ELSE {})
        \cup (IF uq.pc = "lookup" THEN {"lookup"} ELSE {})
        \cup (IF pc = "insert" THEN {"insert"} ELSE {})

(***************************************************************************)
(* Specification of the creation page                                      *)
(***************************************************************************)
Init ==
    /\ FnAtRest
    /\ uq = UqIdle
    /\ clock = MsPerMinute
    /\ loading = TRUE
    /\ user = NoUser
    /\ saving = FALSE
    /\ formData \in Forms
    /\ customFields \in FieldLists
    /\ pc = "idle"
    /\ run = NoRun
    /\ calls = NoCalls
    /\ toast = NoToast
    /\ route = CreateRoute
    /\ ImgAtRest

Next ==
    \/ GetUser
    \/ Tick
    \/ EditName
    \/ Submit
    \/ ProfileAnswer
    \/ ProfileThrows
    \/ LookupAnswer
    \/ LookupThrows
    \/ IssueInsert
    \/ ShortCodeThrows
    \/ InsertAnswer
    \/ InsertThrows

Spec == Init /\ [][Next]_vars

(***************************************************************************)
(* Claims about handleSubmit (checked under Spec)                          *)
(***************************************************************************)
\* The instant a datetime-local text of the form denotes.
FormInstant(text) ==
    CASE text = "1970-01-01T00:00" -> Num(0)
      [] text = "1970-01-01T00:01" -> Num(60000)
      [] text = "1970-01-01T00:02" -> Num(120000)
      [] text = "1970-01-01T00:03" -> Num(180000)
      [] OTHER -> NaN

\* The instant an ISO text of a sent record denotes.
IsoInstant(text) ==
    CASE text = "1970-01-01T00:00:00.000Z" -> Num(0)
      [] text = "1970-01-01T00:01:00.000Z" -> Num(60000)
      [] text = "1970-01-01T00:02:00.000Z" -> Num(120000)
      [] text = "1970-01-01T00:03:00.000Z" -> Num(180000)
      [] OTHER -> NaN

\* The submission fails a local validation: a required field is empty, start
\* or end is unparseable, start is before the current time, end is not after
\* start, or a present deadline is unparseable, not before start, or before
\* the current time.
C7_FailsValidation(fd, now) ==
    LET st == FormInstant(fd.start_time)
        en == FormInstant(fd.end_time)
        dl == FormInstant(fd.registration_deadline)
    IN  \/ fd.name = <<>>
        \/ fd.description = ""
        \/ fd.start_time = ""
        \/ fd.end_time = ""
        \/ st.nan
        \/ en.nan
        \/ st.v < now
        \/ en.v <= st.v
        \/ /\ fd.registration_deadline # ""
           /\ (dl.nan \/ dl.v >= st.v \/ dl.v < now)

\* C7: a submission that fails a local validation ends with an error toast
\* and with no external call issued for it: no profile lookup, no uniqueness
\* lookup, no insert.
C7_RejectedBeforeAnyCall ==
    (run.started /\ C7_FailsValidation(run.formData, run.now.v)) =>
        /\ pc = "idle"
        /\ ~saving
        /\ toast.type = "error"
        /\ toast.message # ""
        /\ calls.profile = 0
        /\ uq.lookups = 0
        /\ uq.genCalls = 0
        /\ calls.inserts = <<>>

\* A submission whose end time equals its start time was rejected.
C7_Witness ==
    /\ run.started
    /\ run.formData.name # <<>>
    /\ run.formData.description # ""
    /\ run.formData.start_time = "1970-01-01T00:02"
    /\ run.formData.end_time = "1970-01-01T00:02"
    /\ toast = ToastError("End time must be after start time")
    /\ calls = NoCalls

\* The record of a create-request has valid start and end, end after start,
\* start not before the instant t, and a deadline, if any, that is valid,
\* before start and not before t.
C8_RecordValidAt(r, t) ==
    LET st == IsoInstant(r.start_time)
        en == IsoInstant(r.end_time)
        dl == IsoInstant(r.registration_deadline)
    IN  /\ ~st.nan
        /\ ~en.nan
        /\ en.v > st.v
        /\ st.v >= t
        /\ r.registration_deadline # Null => (~dl.nan /\ dl.v < st.v /\ dl.v >= t)

\* C8 as stated: every record sent in a create-request has valid start and
\* end with end after start and start not in the past, and a deadline, if
\* any, that is valid, before start and not in the past (the past being
\* what lies before the moment the request is sent).
C8_SentRecordNotInPast ==
    \A i \in 1..Len(calls.inserts) :
        C8_RecordValidAt(calls.inserts[i].record, calls.inserts[i].at)

\* C8 as amended: every record sent in a create-request has valid start and
\* end with end after start, start not before the time handleSubmit read
\* when it validated the form, and a deadline, if any, that is valid, before
\* start and not before that same time.
C8_SentRecordValidAtValidation ==
    \A i \in 1..Len(calls.inserts) :
        C8_RecordValidAt(calls.inserts[i].record, run.now.v)

\* A record with a registration deadline was sent.
C8_Witness ==
    /\ Len(calls.inserts) = 1
    /\ calls.inserts[1].record.registration_deadline = "1970-01-01T00:01:00.000Z"
    /\ calls.inserts[1].record.start_time = "1970-01-01T00:02:00.000Z"
    /\ calls.inserts[1].record.end_time = "1970-01-01T00:03:00.000Z"
    /\ calls.inserts[1].at = 60000

\* C9: the step in which the store rejects the create-request shows the
\* store's message in an error toast, does not navigate, leaves formData and
\* customFields as they are, and sets saving to false with the form still
\* shown and the user signed in, so that the form can be submitted again.
C9_InsertErrorKeepsForm ==
    [][(pc = "insert" /\ calls'.insertOutcome = "error") =>
          /\ toast' = ToastError("Failed to create event: " \o calls'.insertError)
          /\ calls'.insertError # ""
          /\ route' = route
          /\ route' = CreateRoute
          /\ formData' = formData
          /\ customFields' = customFields
          /\ pc' = "idle"
          /\ ~saving'
          /\ ~loading'
          /\ user'.id # Null]_vars

\* The store rejected the create-request of a form with a custom field.
C9_Witness ==
    /\ pc = "idle"
    /\ calls.insertOutcome = "error"
    /\ toast = ToastError("Failed to create event: duplicate key value violates unique constraint")
    /\ route = CreateRoute
    /\ ~saving
    /\ customFields # <<>>
    /\ formData = run.formData

\* C11: at most one submission of the form is active at any time: while a
\* handleSubmit run awaits an external call saving is true, and while saving
\* is true no run of handleSubmit can start.
C11_SingleActiveSubmission ==
    /\ pc # "idle" => saving
    /\ saving => ~ENABLED Submit

\* A create-request is outstanding and the form is on screen.
C11_Witness ==
    /\ pc = "insert"
    /\ saving
    /\ FormShown
    /\ Len(calls.inserts) = 1
    /\ calls.insertOutcome = "none"

\* C12: within one handleSubmit run at most one external call is in flight;
\* the uniqueness lookups start only after the one profile lookup has
\* answered and each lookup is issued only after the one before it has
\* answered; the insert is issued only after generateUniqueShortCode has
\* returned, with every lookup answered, and at most once.
C12_OneCallAtATimeInOrder ==
    /\ Cardinality(inFlight) <= 1
    /\ calls.profile <= 1
    /\ uq.genCalls > 0 => (calls.profile = 1 /\ pc # "profile")
    /\ uq.lookups <= uq.answered + 1
    /\ uq.lookups = uq.answered + 1 => uq.pc \in {"lookup", "threw"}
    /\ calls.inserts # <<>> =>
          /\ uq.pc = "returned"
          /\ uq.lookups >= 1
          /\ uq.lookups = uq.answered
          /\ calls.inserts[1].record.short_code = uq.result
    /\ Len(calls.inserts) <= 1
    /\ pc = "insert" => Len(calls.inserts) = 1

\* The create-request is in flight after the profile lookup and three
\* uniqueness lookups have answered.
C12_Witness ==
    /\ inFlight = {"insert"}
    /\ calls.profile = 1
    /\ uq.lookups = 3
    /\ uq.answered = 3
    /\ Len(calls.inserts) = 1

(***************************************************************************)
(* Specification of the creation page with every awaited call settling     *)
(***************************************************************************)
\* The forms submitted: one that is valid at the first minute, one whose end
\* equals its start, one whose start is no date, and the empty form.
LiveForms ==
    { [EmptyForm EXCEPT !.name = <<"H","i","!">>, !.description = "A meetup",
                        !.start_time = s, !.end_time = "1970-01-01T00:03"] :
        s \in {"1970-01-01T00:02", "1970-01-01T00:03", "tomorrow"} }
      \cup {EmptyForm}

LiveInit ==
    /\ FnAtRest
    /\ uq = UqIdle
    /\ clock = MsPerMinute
    /\ loading = TRUE
    /\ user = NoUser
    /\ saving = FALSE
    /\ formData \in LiveForms
    /\ customFields = <<>>
    /\ pc = "idle"
    /\ run = NoRun
    /\ calls = NoCalls
    /\ toast = NoToast
    /\ route = CreateRoute
    /\ ImgAtRest

\* A step that settles the call handleSubmit awaits, or resumes handleSubmit
\* after generateUniqueShortCode has ended.
Settle ==
    \/ ProfileAnswer
    \/ ProfileThrows
    \/ LookupAnswer
    \/ LookupThrows
    \/ IssueInsert
    \/ ShortCodeThrows
    \/ InsertAnswer
    \/ InsertThrows

\* Every awaited call settles (it answers or it rejects), and a run that can
\* resume does.
LiveSpec == LiveInit /\ [][Next]_vars /\ WF_vars(Settle)

\* C13: every started submission finishes with saving false: no run is idle
\* with saving true; the step that ends a run sets saving to false and shows
\* a toast, an error toast on the failure of any call (a profile lookup or a
\* uniqueness lookup that throws, an insert that returns an error or throws),
\* with the form still shown, and the success toast otherwise; and a run
\* that awaits a call always reaches that end.
C13_SubmissionAlwaysFinishes ==
    /\ [](pc = "idle" => ~saving)
    /\ [](run.started /\ pc = "idle" => toast.type \in {"error", "success"})
    /\ [][(pc # "idle" /\ pc' = "idle") =>
            /\ ~saving'
            /\ ~loading'
            /\ toast'.type \in {"error", "success"}
            /\ toast'.type = "error" => (route' = CreateRoute /\ formData' = formData)
            /\ toast'.type = "success" => calls'.insertOutcome = "ok"]_vars
    /\ (pc # "idle") ~> (pc = "idle" /\ ~saving /\ ~loading)

\* A run ended in the catch block because a uniqueness lookup threw.
C13_Witness ==
    /\ run.started
    /\ pc = "idle"
    /\ uq.pc = "threw"
    /\ ~saving
    /\ toast = ToastError("Failed to create event")
    /\ route = CreateRoute

(***************************************************************************)
(* ImageUpload                                                             *)
(***************************************************************************)
\* The maxSize the page passes to ImageUpload, in megabytes.
maxSize == 5

BytesPerMegabyte == 1024 * 1024

\* s.startsWith(prefix)
startsWith(s, prefix) ==
    /\ Len(s) >= Len(prefix)
    /\ SubSeq(s, 1, Len(prefix)) = prefix

\* The characters of a sequence as one string.
RECURSIVE joinChars(_)
joinChars(s) == IF s = <<>> THEN "" ELSE Head(s) \o joinChars(Tail(s))

\* name.split('.').pop(): what follows the last dot, the whole name when it
\* has no dot.
RECURSIVE lastSegment(_)
lastSegment(name) ==
    IF \E i \in 1..Len(name) : name[i] = "."
    THEN lastSegment(SubSeq(name, (CHOOSE i \in 1..Len(name) : name[i] = ".") + 1, Len(name)))
    ELSE name

\* `${user.id}/${Date.now()}.${fileExt}`
uploadFileName(usr, now, file) ==
    usr.id \o "/" \o ToString(now) \o "." \o joinChars(lastSegment(file.name))

\* What the FileReader hands to onload for a file.
dataUrl(file) == "data:" \o joinChars(file.type) \o ";base64," \o joinChars(file.name)

\* getImageUrl: null for an empty path, else the public URL of the path.
getImageUrl(path) ==
    IF path = "" THEN Null
    ELSE "https://project.supabase.co/storage/v1/object/public/event-banners/" \o path

\* The useEffect on [value]: the preview follows a value that changed.
previewAfterValue(oldValue, newValue, current) ==
    IF newValue = oldValue THEN current
    ELSE IF newValue # ""
         THEN (IF getImageUrl(newValue) # Null THEN getImageUrl(newValue) ELSE current)
         ELSE Null

\* The catch and finally blocks of handleFileSelect.
UploadCatchAndFinally(message, outcome) ==
    /\ toast' = ToastError(message)
    /\ preview' = Null
    /\ uploading' = FALSE
    /\ img' = [img EXCEPT !.pc = "idle", !.lastUpload = outcome]

\* The files the user picks: two images, an image above the size limit, and
\* a text file.
Files ==
    { [name |-> <<"b",".","p","n","g">>, size |-> 2048,
       type |-> <<"i","m","a","g","e","/","p","n","g">>],
      [name |-> <<"b",".","t","a","r",".","j","p","g">>, size |-> 4096,
       type |-> <<"i","m","a","g","e","/","j","p","e","g">>],
      [name |-> <<"h","u","g","e",".","p","n","g">>, size |-> maxSize * BytesPerMegabyte + 1,
       type |-> <<"i","m","a","g","e","/","p","n","g">>],
      [name |-> <<"n",".","t","x","t">>, size |-> 10,
       type |-> <<"t","e","x","t","/","p","l","a","i","n">>] }

\* The error messages of the storage.
UploadErrors ==
    { "Bucket not found", "The resource already exists",
      "new row violates row-level security policy" }

\* handleFileSelect up to its first await: the input is disabled while the
\* page saves or an upload runs; a file above the limit or not an image is
\* refused with a toast; else setUploading(true) and getUser is called.
SelectFile ==
    /\ FormShown
    /\ ~(saving \/ uploading)
    /\ \E file \in Files :
          IF file.size > maxSize * BytesPerMegabyte
          THEN /\ toast' = ToastError("File size must be less than " \o ToString(maxSize) \o "MB")
               /\ UNCHANGED <<uploading, img>>
          ELSE IF ~startsWith(file.type, <<"i","m","a","g","e","/">>)
          THEN /\ toast' = ToastError("Please select an image file")
               /\ UNCHANGED <<uploading, img>>
          ELSE /\ uploading' = TRUE
               /\ img' = [img EXCEPT !.pc = "getUser", !.file = file, !.fileName = "",
                                     !.formData = formData,
                                     !.lastUpload = "none", !.reported = "none"]
               /\ UNCHANGED toast
    /\ UNCHANGED <<fnVars, uq, clock, loading, user, saving, formData, customFields, pc, run,
                   calls, route, preview, storage>>

\* getUser answered: with no user the error is thrown into the catch block;
\* else the file name is made, the FileReader is started and the upload is
\* issued.
UploadGetUserAnswer ==
    /\ img.pc = "getUser"
    /\ \E usr \in {NoUser, SomeUser} :
          IF usr.id = Null
          THEN UploadCatchAndFinally("User not authenticated", "unauthenticated")
          ELSE /\ img' = [img EXCEPT !.pc = "upload",
                                     !.fileName = uploadFileName(usr, clock, img.file),
                                     !.readers = @ \cup {dataUrl(img.file)}]
               /\ UNCHANGED <<uploading, preview, toast>>
    /\ UNCHANGED <<fnVars, uq, clock, loading, user, saving, formData, customFields, pc, run,
                   calls, route, storage>>

\* getUser rejected.
UploadGetUserThrows ==
    /\ img.pc = "getUser"
    /\ UploadCatchAndFinally("Failed to fetch", "threw")
    /\ UNCHANGED <<fnVars, uq, clock, loading, user, saving, formData, customFields, pc, run,
                   calls, route, storage>>

\* reader.onload fires: setPreview(e.target.result).
ReaderLoad ==
    /\ \E d \in img.readers :
          /\ preview' = d
          /\ img' = [img EXCEPT !.readers = @ \ {d}]
    /\ UNCHANGED <<fnVars, uq, clock, loading, user, saving, formData, customFields, pc, run,
                   calls, toast, route, uploading, storage>>

\* error.message.includes('Bucket not found'), for the messages of UploadErrors.
mentionsBucketNotFound(message) == message = "Bucket not found"

\* The upload answers { data, error }. The storage keeps an object only when
\* the path is free (upsert is false). On an error the catch block runs; else
\* the preview becomes the public URL, the path is reported through onChange
\* (which spreads the formData the handler's closure holds), the effect on
\* the changed value runs, and the success toast is shown.
UploadAnswer ==
    /\ img.pc = "upload"
    /\ \/ /\ img.fileName \notin storage
          /\ storage' = storage \cup {img.fileName}
          /\ formData' = [img.formData EXCEPT !.banner_image_url = img.fileName]
          /\ preview' = previewAfterValue(formData.banner_image_url, img.fileName,
                            IF getImageUrl(img.fileName) # Null
                            THEN getImageUrl(img.fileName) ELSE preview)
          /\ toast' = ToastSuccess("Image uploaded successfully!")
          /\ uploading' = FALSE
          /\ img' = [img EXCEPT !.pc = "idle", !.lastUpload = "ok", !.reported = img.fileName]
       \/ /\ \E message \in UploadErrors :
                UploadCatchAndFinally(
                    IF mentionsBucketNotFound(message)
                    THEN "Storage bucket not configured. Please contact support."
                    ELSE message,
                    "error")
          /\ UNCHANGED <<storage, formData>>
    /\ UNCHANGED <<fnVars, uq, clock, loading, user, saving, customFields, pc, run, calls,
                   route>>

\* The upload rejected.
UploadThrows ==
    /\ img.pc = "upload"
    /\ UploadCatchAndFinally("Failed to fetch", "threw")
    /\ UNCHANGED <<fnVars, uq, clock, loading, user, saving, formData, customFields, pc, run,
                   calls, route, storage>>

\* handleRemove up to its await: the remove buttons exist while there is a
\* preview and are disabled while the page saves or an upload runs; with no
\* value the handler returns; else the delete of the value is issued.
Remove ==
    /\ FormShown
    /\ preview # Null
    /\ ~(saving \/ uploading)
    /\ formData.banner_image_url # ""
    /\ img' = [img EXCEPT
          !.removes = @ \cup {[value |-> formData.banner_image_url, formData |-> formData]},
          !.lastUpload = "none", !.reported = "none"]
    /\ UNCHANGED <<fnVars, uq, clock, loading, user, saving, formData, customFields, pc, run,
                   calls, toast, route, uploading, preview, storage>>

\* Mutant: a delete error returns from handleRemove before the local state is
\* cleared.
RemoveAnswerStopsOnError ==
    /\ \E r \in img.removes, failed \in BOOLEAN :
          /\ storage' = IF failed THEN storage ELSE storage \ {r.value}
          /\ IF failed
             THEN UNCHANGED <<formData, preview, toast>>
             ELSE /\ formData' = [r.formData EXCEPT !.banner_image_url = ""]
                  /\ preview' = Null
                  /\ toast' = ToastSuccess("Image removed")
          /\ img' = [img EXCEPT !.removes = @ \ {r},
                                !.lastRemove = [value |-> r.value,
                                                outcome |-> IF failed THEN "error" ELSE "ok"]]
    /\ UNCHANGED <<fnVars, uq, clock, loading, user, saving, customFields, pc, run, calls,
                   route, uploading>>

\* The delete answers { error }: an error is logged and the object stays in
\* the storage; either way onChange(null) and setPreview(null) run and the
\* toast says the image was removed.
RemoveAnswer ==
    /\ \E r \in img.removes, failed \in BOOLEAN :
          /\ storage' = IF failed THEN storage ELSE storage \ {r.value}
          /\ formData' = [r.formData EXCEPT !.banner_image_url = ""]
          /\ preview' = previewAfterValue(formData.banner_image_url, "", Null)
          /\ toast' = ToastSuccess("Image removed")
          /\ img' = [img EXCEPT !.removes = @ \ {r},
                                !.lastRemove = [value |-> r.value,
                                                outcome |-> IF failed THEN "error" ELSE "ok"]]
    /\ UNCHANGED <<fnVars, uq, clock, loading, user, saving, customFields, pc, run, calls,
                   route, uploading>>

\* The delete rejected: the catch block shows a toast and nothing is cleared.
RemoveThrows ==
    /\ \E r \in img.removes :
          img' = [img EXCEPT !.removes = @ \ {r},
                             !.lastRemove = [value |-> r.value, outcome |-> "threw"]]
    /\ toast' = ToastError("Failed to remove image")
    /\ UNCHANGED <<fnVars, uq, clock, loading, user, saving, formData, customFields, pc, run,
                   calls, route, uploading, preview, storage>>

(***************************************************************************)
(* Specification of ImageUpload on the shown form                          *)
(***************************************************************************)
ImgInit ==
    /\ FnAtRest
    /\ uq = UqIdle
    /\ clock = MsPerMinute
    /\ loading = FALSE
    /\ user = SomeUser
    /\ saving = FALSE
    /\ formData = EmptyForm
    /\ customFields = <<>>
    /\ pc = "idle"
    /\ run = NoRun
    /\ calls = NoCalls
    /\ toast = NoToast
    /\ route = CreateRoute
    /\ ImgAtRest

ImgNext ==
    \/ SelectFile
    \/ UploadGetUserAnswer
    \/ UploadGetUserThrows
    \/ ReaderLoad
    \/ UploadAnswer
    \/ UploadThrows
    \/ Remove
    \/ RemoveAnswer
    \/ RemoveThrows

ImgSpec == ImgInit /\ [][ImgNext]_vars

(***************************************************************************)
(* Claims about ImageUpload (checked under ImgSpec)                        *)
(***************************************************************************)
\* C14: once a failed upload (no authenticated user, or an error answer of
\* the storage) has been handled, and until the user picks a file or removes
\* the image, the preview is empty and the run has reported no storage path,
\* whenever the FileReader's onload fires.
C14_FailedUploadLeavesNoPreview ==
    img.lastUpload \in {"unauthenticated", "error"} =>
        /\ preview = Null
        /\ img.reported = "none"
        /\ ~uploading

\* C15: the step in which a storage delete answers, with or without an
\* error, sets the reported path to empty and the preview to none and says
\* the image was removed; with an error the storage is left as it was (the
\* object can still be there), without one the object is gone.
C15_RemoveClearsLocalState ==
    [][(/\ img'.removes # img.removes
        /\ img'.removes \subseteq img.removes
        /\ img'.lastRemove.outcome \in {"ok", "error"}) =>
          /\ formData'.banner_image_url = ""
          /\ preview' = Null
          /\ toast' = ToastSuccess("Image removed")
          /\ img'.lastRemove.outcome = "error" => storage' = storage
          /\ img'.lastRemove.outcome = "ok" => img'.lastRemove.value \notin storage']_vars

\* A delete answered with an error: the form holds no image and shows none,
\* and the object is still in the storage.
C15_Witness ==
    /\ img.lastRemove.outcome = "error"
    /\ img.lastRemove.value \in storage
    /\ formData.banner_image_url = ""
    /\ preview = Null
    /\ toast = ToastSuccess("Image removed")

(***************************************************************************)
(* The custom-field list                                                   *)
(***************************************************************************)
\* The entry addCustomField makes at the instant now.
newField(now) ==
    [id |-> ToString(now), name |-> "", type |-> "text", required |-> FALSE,
     options |-> <<>>]

\* [...customFields, newField]
addCustomField(fields, now) == Append(fields, newField(now))

\* { ...field, ...updates }
spread(field, updates) ==
    [k \in DOMAIN field \cup DOMAIN updates |->
        IF k \in DOMAIN updates THEN updates[k] ELSE field[k]]

\* Mutant: the matching entry is replaced by the updates instead of merged.
updateCustomFieldNoMerge(fields, id, updates) ==
    [i \in 1..Len(fields) |->
        IF fields[i].id = id THEN spread(newField(0), updates) ELSE fields[i]]

\* fields.map(field => field.id === id ? { ...field, ...updates } : field)
updateCustomField(fields, id, updates) ==
    [i \in 1..Len(fields) |->
        IF fields[i].id = id THEN spread(fields[i], updates) ELSE fields[i]]

\* Mutant: the filter keeps the entries before the first match only.
removeCustomFieldTruncates(fields, id) ==
    IF \E i \in 1..Len(fields) : fields[i].id = id
    THEN SubSeq(fields, 1, (CHOOSE i \in 1..Len(fields) :
                               /\ fields[i].id = id
                               /\ \A j \in 1..(i - 1) : fields[j].id # id) - 1)
    ELSE fields

\* fields.filter(field => field.id !== id)
RECURSIVE removeCustomField(_, _)
removeCustomField(fields, id) ==
    IF fields = <<>> THEN <<>>
    ELSE IF Head(fields).id # id
         THEN <<Head(fields)>> \o removeCustomField(Tail(fields), id)
         ELSE removeCustomField(Tail(fields), id)

\* The list is followed while it has fewer than MaxFields entries, and the
\* clock for MaxFieldMs milliseconds.
MaxFields == 3

MaxFieldMs == 2

\* The identifiers the handlers are called with: those Date.now() can have
\* produced, whether or not an entry still carries them.
FieldIds == {ToString(MsPerMinute + t) : t \in 0..MaxFieldMs}

\* The changes the inputs of an entry send: a label, the required flag.
FieldUpdates == { [name |-> "Team"], [required |-> TRUE] }

\* The call as fnArgs records it.
FieldCall(op, id, updates) == [op |-> op, id |-> id, updates |-> updates]

NoUpdates == [name |-> ""]

\* A millisecond passes.
TickMs ==
    /\ clock < MsPerMinute + MaxFieldMs
    /\ clock' = clock + 1
    /\ UNCHANGED <<fnVars, imgVars, uq, loading, user, saving, formData, customFields, pc,
                   run, calls, toast, route>>

\* The "Add Custom Field" button: the list of the last render and Date.now().
AddCustomField ==
    /\ FormShown
    /\ Len(customFields) < MaxFields
    /\ customFields' = addCustomField(customFields, clock)
    /\ fnArgs' = FieldCall("addCustomField", "", NoUpdates)
    /\ UNCHANGED <<fnPc, fnRet, imgVars, uq, clock, loading, user, saving, formData, pc, run,
                   calls, toast, route>>

\* An input of an entry changes.
UpdateCustomField ==
    /\ FormShown
    /\ \E id \in FieldIds, updates \in FieldUpdates :
          /\ customFields' = updateCustomField(customFields, id, updates)
          /\ fnArgs' = FieldCall("updateCustomField", id, updates)
    /\ UNCHANGED <<fnPc, fnRet, imgVars, uq, clock, loading, user, saving, formData, pc, run,
                   calls, toast, route>>

\* The remove button of an entry.
RemoveCustomField ==
    /\ FormShown
    /\ \E id \in FieldIds :
          /\ customFields' = removeCustomField(customFields, id)
          /\ fnArgs' = FieldCall("removeCustomField", id, NoUpdates)
    /\ UNCHANGED <<fnPc, fnRet, imgVars, uq, clock, loading, user, saving, formData, pc, run,
                   calls, toast, route>>

(***************************************************************************)
(* Specification of the custom-field handlers on the shown form            *)
(***************************************************************************)
FieldInit ==
    /\ fnPc = "ready"
    /\ fnArgs = FieldCall("none", "", NoUpdates)
    /\ fnRet = <<>>
    /\ uq = UqIdle
    /\ clock = MsPerMinute
    /\ loading = FALSE
    /\ user = SomeUser
    /\ saving = FALSE
    /\ formData = EmptyForm
    /\ customFields = <<>>
    /\ pc = "idle"
    /\ run = NoRun
    /\ calls = NoCalls
    /\ toast = NoToast
    /\ route = CreateRoute
    /\ ImgAtRest

FieldNext ==
    \/ TickMs
    \/ AddCustomField
    \/ UpdateCustomField
    \/ RemoveCustomField

FieldSpec == FieldInit /\ [][FieldNext]_vars

(***************************************************************************)
(* Claims about the custom-field list (checked under FieldSpec)            *)
(***************************************************************************)
\* The positions of the entries of a list that carry the identifier.
Matching(fields, id) == {i \in 1..Len(fields) : fields[i].id = id}

\* The position in the list of the k-th entry that does not carry the
\* identifier.
KthKept(fields, id, k) ==
    CHOOSE i \in 1..Len(fields) :
        /\ fields[i].id # id
        /\ Cardinality({j \in 1..(i - 1) : fields[j].id # id}) = k - 1

\* C16, updateCustomField: the list keeps its length and its order of
\* identifiers; an entry with another identifier is unchanged; a matching
\* entry takes the changed attributes and keeps its others; with exactly one
\* matching entry no other position changes, and with none the list is
\* unchanged. removeCustomField: the result is the entries with another
\* identifier, in their order; with exactly one matching entry the list is
\* one shorter, and with none it is unchanged.
C16_UpdateAndRemoveFrame ==
    [][/\ (fnArgs'.op = "updateCustomField" /\ clock' = clock) =>
            LET id == fnArgs'.id
                updates == fnArgs'.updates
                hit == Matching(customFields, id)
            IN  /\ Len(customFields') = Len(customFields)
                /\ \A i \in 1..Len(customFields) :
                      /\ customFields'[i].id = customFields[i].id
                      /\ i \notin hit => customFields'[i] = customFields[i]
                      /\ i \in hit =>
                            /\ DOMAIN customFields'[i] = DOMAIN customFields[i]
                            /\ \A k \in DOMAIN customFields[i] :
                                  customFields'[i][k] =
                                      IF k \in DOMAIN updates THEN updates[k]
                                      ELSE customFields[i][k]
                /\ hit = {} => customFields' = customFields
                /\ Cardinality(hit) = 1 =>
                      Cardinality({i \in 1..Len(customFields) :
                                      customFields'[i] # customFields[i]}) <= 1
       /\ (fnArgs'.op = "removeCustomField" /\ clock' = clock) =>
            LET id == fnArgs'.id
                hit == Matching(customFields, id)
            IN  /\ Len(customFields') = Len(customFields) - Cardinality(hit)
                /\ \A k \in 1..Len(customFields') :
                      customFields'[k] = customFields[KthKept(customFields, id, k)]
                /\ hit = {} => customFields' = customFields
                /\ Cardinality(hit) = 1 => Len(customFields') = Len(customFields) - 1
      ]_vars

\* The second of three entries with distinct identifiers was given a label
\* and the other two are as addCustomField made them.
C16_Witness ==
    /\ fnArgs = FieldCall("updateCustomField", ToString(MsPerMinute + 1), [name |-> "Team"])
    /\ Len(customFields) = 3
    /\ customFields[1] = newField(MsPerMinute)
    /\ customFields[2] = [newField(MsPerMinute + 1) EXCEPT !.name = "Team"]
    /\ customFields[3] = newField(MsPerMinute + 2)

\* The first of two entries was removed and the second, with its label, is
\* the one left.
C16_WitnessRemoved ==
    /\ fnArgs = FieldCall("removeCustomField", ToString(MsPerMinute), NoUpdates)
    /\ customFields = <<[newField(MsPerMinute + 1) EXCEPT !.name = "Team"]>>

\* C17: the identifiers of the entries of the list are pairwise distinct at
\* all times, and every addCustomField call appends exactly one entry, of
\* type "text", not required and with no options, to the list as it was,
\* also when the clock has not advanced since the call before.
C17_DistinctIdsAndAppendOne ==
    /\ [](\A i, j \in 1..Len(customFields) :
              i # j => customFields[i].id # customFields[j].id)
    /\ [][(fnArgs'.op = "addCustomField" /\ clock' = clock) =>
            /\ Len(customFields') = Len(customFields) + 1
            /\ SubSeq(customFields', 1, Len(customFields)) = customFields
            /\ customFields'[Len(customFields')].type = "text"
            /\ customFields'[Len(customFields')].required = FALSE
            /\ customFields'[Len(customFields')].options = <<>>]_vars

====
